---- MODULE Spec2Model ----
(***************************************************************************)
(* terminal-atmosphere: the environment monitor (lib/monitor.js), its      *)
(* rolling history, the weather classifier, the alert evaluator and the    *)
(* optimize run of the AI assistant (lib/ai-assistant.js).                 *)
(*                                                                         *)
(* Numbers: percentages are integers (percent); a timestamp is the value   *)
(* of the millisecond clock at the moment `new Date()` is evaluated.       *)
(***************************************************************************)
EXTENDS Integers, Sequences, FiniteSets, TLC

VARIABLES
    \* ---- EnvironmentMonitor (monitor.js) ----
    mpc,          \* position of start(): "new", "running", "failed", "exited"
                  \*   ("absent": the process constructed no monitor)
    isMonitoring, \* this.isMonitoring
    timerActive,  \* the setInterval timer is registered and not cleared
    history,      \* this.history
    historyFile,  \* ~/.terminal-atmosphere/history.json
    ticks,        \* the invocations of the interval callback, in firing order
    clock,        \* the millisecond clock read by new Date()
    warnings,     \* number of console.warn calls of loadHistory / saveHistory
    interval,     \* this.options.interval, the --interval option in seconds
    \* ---- pure functions applied to one sample ----
    sample,       \* the argument of determineWeather / checkAlerts
    weather,      \* condition returned by determineWeather ("" before the call)
    alerts,       \* list built by checkAlerts
    called,       \* the pure functions that have been applied to the sample
    forecast,     \* the --forecast option of the weather command
    report,       \* the sections weatherReport printed, in order
    \* ---- AIAssistant.optimize (ai-assistant.js) ----
    apc,          \* position of optimize(): "idle", "start", "gathered", "analyzed",
                  \*   "saved", "selecting", "applying", "done", "failed"
    focusArea,    \* the --focus option
    systemData,   \* result of gatherSystemData
    context,      \* result of loadContext in optimize
    analysis,     \* result of performAIAnalysis
    contextFile,  \* ~/.terminal-atmosphere/context.json
    suggestionsFile, \* ~/.terminal-atmosphere/suggestions.json
    answer,       \* the operator's answer to the confirm prompt
    selected,     \* the suggestions the operator ticked in the checkbox prompt
    toRun,        \* the selected suggestions the for-loop has not reached yet
    executed,     \* the executeCommand calls made, in order, with their outcome
    aiLog,        \* what optimize printed: "display", "fail", "warn", "applied"
    trends,       \* cpuTrend and memTrend of makePredictions
    \* ---- ProductivityOptimizer.applyProfile (ai-assistant.js) ----
    ppc,          \* position of applyProfile(): "idle", "start", "applying", "done",
                  \*   "rejected" (the promise of applyProfile rejected)
    profileName,  \* the --apply option
    profiles,     \* ~/.terminal-atmosphere/profiles: name -> <name>.json
    applied,      \* the applyOptimization calls made, in order
    profileLog    \* what applyProfile printed: "not found", "applied"

monVars == <<mpc, isMonitoring, timerActive, history, historyFile, ticks, clock, warnings,
             interval>>
fnVars == <<sample, weather, alerts, called, forecast, report>>
aiVars == <<apc, focusArea, systemData, context, analysis, contextFile, suggestionsFile,
            answer, selected, toRun, executed, aiLog, trends>>
prVars == <<ppc, profileName, profiles, applied, profileLog>>
vars == <<monVars, fnVars, aiVars, prVars, interval>>

(***************************************************************************)
(* Bounds of the model                                                     *)
(***************************************************************************)
MaxTicks == 2
ExtraStored == 1
ExtraAppends == 4

(***************************************************************************)
(* EnvironmentMonitor                                                      *)
(***************************************************************************)
maxHistory == 100

\* A reading of the metrics provider (si.currentLoad, si.mem, si.processes).
Readings ==
    { [load |-> 10, used |-> 30, total |-> 100, running |-> 50],
      [load |-> 95, used |-> 80, total |-> 100, running |-> 250] }

\* The object literal returned by collectMetrics; `now` is new Date().
MkSample(now, r) ==
    [ timestamp |-> now,
      cpuUsage |-> r.load,
      memPercentage |-> (r.used * 100) \div r.total,
      running |-> r.running ]

\* this.history.shift()
Shift(h) == SubSeq(h, 2, Len(h))

addToHistory_popNewest(h, data) ==
    LET pushed == Append(h, data)
    IN  IF Len(pushed) > maxHistory THEN SubSeq(pushed, 1, Len(pushed) - 1) ELSE pushed

addToHistory(h, data) ==
    LET pushed == Append(h, data)
    IN  IF Len(pushed) > maxHistory THEN Shift(pushed) ELSE pushed

\* The content of history.json: absent, a complete JSON array, or bytes that
\* do not parse (an empty or partly written file).
Absent == [kind |-> "absent", data |-> <<>>]
Corrupt == [kind |-> "corrupt", data |-> <<>>]
Json(h) == [kind |-> "json", data |-> h]

\* A history of n samples as an earlier session stored it: timestamps before
\* this session's clock, in capture order.
Calm == [load |-> 10, used |-> 30, total |-> 100, running |-> 50]
StoredHistory(n) == [i \in 1..n |-> MkSample(i - n, Calm)]

StoredLens == {0, maxHistory - 1, maxHistory, maxHistory + ExtraStored}

StoredFiles == {Absent, Corrupt} \cup {Json(StoredHistory(n)) : n \in StoredLens}

\* loadHistory: the parsed file replaces this.history; a missing file leaves
\* it alone; a read or parse error is caught and warned about.
loadHistory_staleOnError(h, f) ==
    IF f.kind = "json" THEN f.data
    ELSE IF f.kind = "corrupt" THEN StoredHistory(1) ELSE h

loadHistory(h, f) ==
    IF f.kind = "json" THEN f.data ELSE h

loadWarns(f) == IF f.kind = "corrupt" THEN 1 ELSE 0

\* One invocation of the interval callback.
\*   pc: "collect"   awaiting Promise.all of the si.* calls
\*       "disk"      timestamp taken, awaiting getDiskUsage()
\*       "open"      sample appended, writeJson has serialised this.history
\*                   and fs.writeFile has not opened the file yet
\*       "write"     the file is opened (truncated), the bytes not written
\*       "done"      callback returned normally
\*   saveFailed: saveHistory caught a rejection of writeJson in this callback
\*   appendNo:   the position of this callback's addToHistory among the
\*               addToHistory calls of the session (0: not called)
\*       "failed"    callback ended in its catch block
\*       "abandoned" the process exited while the callback was suspended
NewTick ==
    [pc |-> "collect", data |-> <<>>, snap |-> <<>>, alerts |-> <<>>,
     reported |-> FALSE, appended |-> FALSE, wrote |-> FALSE,
     saveFailed |-> FALSE, appendNo |-> 0]

InFlight(t) == ticks[t].pc \in {"collect", "disk", "open", "write"}

\* checkAlerts(data): the list of alerts of one sample.
checkAlerts_bothBands(d) ==
    (IF d.cpuUsage > 90 THEN <<[type |-> "critical", metric |-> "cpu"]>> ELSE <<>>)
    \o (IF d.cpuUsage > 75 THEN <<[type |-> "warning", metric |-> "cpu"]>> ELSE <<>>)
    \o (IF d.memPercentage > 90 THEN <<[type |-> "critical", metric |-> "memory"]>> ELSE <<>>)
    \o (IF d.memPercentage > 75 THEN <<[type |-> "warning", metric |-> "memory"]>> ELSE <<>>)
    \o (IF d.running > 200 THEN <<[type |-> "info", metric |-> "processes"]>> ELSE <<>>)

checkAlerts(d) ==
    (IF d.cpuUsage > 90 THEN <<[type |-> "critical", metric |-> "cpu"]>>
     ELSE IF d.cpuUsage > 75 THEN <<[type |-> "warning", metric |-> "cpu"]>>
     ELSE <<>>)
    \o (IF d.memPercentage > 90 THEN <<[type |-> "critical", metric |-> "memory"]>>
        ELSE IF d.memPercentage > 75 THEN <<[type |-> "warning", metric |-> "memory"]>>
        ELSE <<>>)
    \o (IF d.running > 200 THEN <<[type |-> "info", metric |-> "processes"]>> ELSE <<>>)

\* Values of the --interval option (default '5').
Intervals == {0 - 1, 0, 5}

\* The delay setInterval uses for options.interval * 1000: a delay below 1 ms
\* becomes 1 ms.
delayMs(seconds) == IF seconds * 1000 < 1 THEN 1 ELSE seconds * 1000

MonitorInit ==
    /\ mpc = "new"
    /\ isMonitoring = FALSE
    /\ timerActive = FALSE
    /\ history = <<>>
    /\ historyFile \in StoredFiles
    /\ ticks = <<>>
    /\ clock = 1
    /\ warnings = 0
    /\ interval \in Intervals

FnIdle ==
    /\ sample = MkSample(0, Calm)
    /\ weather = ""
    /\ alerts = <<>>
    /\ called = {}
    /\ forecast = FALSE
    /\ report = <<>>

\* The AI assistant before optimize() is called.
NoSystemData ==
    [ timestamp |-> 0,
      cpu |-> [usage |-> 0, cores |-> 0, temperature |-> 0],
      memory |-> [total |-> 1, used |-> 0, swapTotal |-> 0, swapUsed |-> 0],
      network |-> <<>>,
      processes |-> [running |-> 0, list |-> <<>>],
      pwdInNodeModules |-> FALSE ]

NoAnalysis ==
    [ timestamp |-> 0, focusArea |-> "", insights |-> <<>>, suggestions |-> <<>>,
      predictions |-> <<>>, patterns |-> <<>>, score |-> 0 ]

\* The context loadContext falls back to.
DefaultContext == [history |-> <<>>, patterns |-> <<>>]

NoTrend == [direction |-> "", rateNum |-> 0, rateDen |-> 1, confidence |-> 0]
NoTrends == [cpu |-> NoTrend, memory |-> NoTrend]

AiIdle ==
    /\ apc = "idle"
    /\ focusArea = "all"
    /\ systemData = NoSystemData
    /\ context = DefaultContext
    /\ analysis = NoAnalysis
    /\ contextFile = Absent
    /\ suggestionsFile = Absent
    /\ answer = "unasked"
    /\ selected = <<>>
    /\ toRun = <<>>
    /\ executed = <<>>
    /\ aiLog = <<>>
    /\ trends = NoTrends

\* No ProductivityOptimizer is constructed; the profiles directory is empty.
PrIdle ==
    /\ ppc = "idle"
    /\ profileName = ""
    /\ profiles = <<>>
    /\ applied = <<>>
    /\ profileLog = <<>>

Init == MonitorInit /\ FnIdle /\ AiIdle /\ PrIdle

\* start(): ensureDir succeeded; loadHistory; isMonitoring = true; setInterval;
\* the SIGINT handler is registered.
Start ==
    /\ mpc = "new"
    /\ history' = loadHistory(history, historyFile)
    /\ warnings' = warnings + loadWarns(historyFile)
    /\ isMonitoring' = TRUE
    /\ timerActive' = TRUE
    /\ mpc' = "running"
    /\ UNCHANGED <<historyFile, ticks, clock, fnVars, prVars, aiVars, interval>>

\* start(): fs.ensureDir rejects, start() rejects before anything else ran.
StartDirFail ==
    /\ mpc = "new"
    /\ mpc' = "failed"
    /\ UNCHANGED <<isMonitoring, timerActive, history, historyFile, ticks, clock, warnings, fnVars, prVars, aiVars, interval>>

\* The interval elapses and the callback starts: it runs up to its first await.
TimerFire ==
    /\ mpc = "running"
    /\ timerActive
    /\ Len(ticks) < MaxTicks
    /\ clock' = clock + delayMs(interval)
    /\ IF ~isMonitoring
       THEN /\ timerActive' = FALSE
            /\ ticks' = ticks
       ELSE /\ timerActive' = timerActive
            /\ ticks' = Append(ticks, NewTick)
    /\ UNCHANGED <<mpc, isMonitoring, history, historyFile, warnings, fnVars, prVars, aiVars, interval>>

\* Promise.all resolves: the object literal starts with timestamp: new Date(),
\* then suspends again on await this.getDiskUsage().
CollectResolve(t) ==
    /\ mpc = "running"
    /\ ticks[t].pc = "collect"
    /\ \E r \in Readings :
         ticks' = [ticks EXCEPT ![t].pc = "disk", ![t].data = <<MkSample(clock, r)>>]
    /\ UNCHANGED <<mpc, isMonitoring, timerActive, history, historyFile, clock, warnings, fnVars, prVars, aiVars, interval>>

\* The catch block of the callback: spinner.fail(...).
catchError_silent(tk) == [tk EXCEPT !.pc = "failed"]

catchError(tk) == [tk EXCEPT !.pc = "failed", !.reported = TRUE]

\* Promise.all or getDiskUsage rejects: collectMetrics throws into the catch.
CollectReject(t) ==
    /\ mpc = "running"
    /\ ticks[t].pc \in {"collect", "disk"}
    /\ ticks' = [ticks EXCEPT ![t] = catchError(ticks[t])]
    /\ UNCHANGED <<mpc, isMonitoring, timerActive, history, historyFile, clock, warnings, fnVars, prVars, aiVars, interval>>

\* getDiskUsage resolves: collectMetrics returns, addToHistory(data) runs and
\* saveHistory starts: writeJson serialises this.history before its first await.
DiskResolve(t) ==
    /\ mpc = "running"
    /\ ticks[t].pc = "disk"
    /\ history' = addToHistory(history, ticks[t].data[1])
    /\ ticks' = [ticks EXCEPT ![t].pc = "open", ![t].appended = TRUE, ![t].snap = history',
                              ![t].appendNo = 1 + Cardinality({u \in 1..Len(ticks) : ticks[u].appended})]
    /\ UNCHANGED <<mpc, isMonitoring, timerActive, historyFile, clock, warnings, fnVars, prVars, aiVars, interval>>

\* The rest of the callback after await this.saveHistory(): spinner.text,
\* the verbose display and checkAlerts(data).
FinishTick(tk) == [tk EXCEPT !.pc = "done", !.alerts = checkAlerts(tk.data[1])]

\* fs.writeFile opens history.json with flag 'w': the file is truncated.
WriteOpen(t) ==
    /\ mpc = "running"
    /\ ticks[t].pc = "open"
    /\ historyFile' = Corrupt
    /\ ticks' = [ticks EXCEPT ![t].pc = "write"]
    /\ UNCHANGED <<mpc, isMonitoring, timerActive, history, clock, warnings, fnVars, prVars, aiVars, interval>>

\* The bytes are written at offset 0 and the file is closed.  When another
\* callback completed a longer document since this one truncated the file, the
\* shorter document overlays only its beginning.
WriteDone(t) ==
    /\ mpc = "running"
    /\ ticks[t].pc = "write"
    /\ historyFile' =
         IF historyFile.kind = "json" /\ Len(historyFile.data) > Len(ticks[t].snap)
         THEN Corrupt
         ELSE Json(ticks[t].snap)
    /\ ticks' = [ticks EXCEPT ![t] = FinishTick([ticks[t] EXCEPT !.wrote = TRUE])]
    /\ UNCHANGED <<mpc, isMonitoring, timerActive, history, clock, warnings, fnVars, prVars, aiVars, interval>>

\* saveHistory's catch: console.warn, saveHistory returns normally and the
\* callback goes on with the status text and checkAlerts.
afterSaveFailure_rethrow(tk) == catchError([tk EXCEPT !.saveFailed = TRUE])

afterSaveFailure(tk) == FinishTick([tk EXCEPT !.saveFailed = TRUE])

\* fs.writeFile rejects (on open or on write): saveHistory catches and warns,
\* and the callback goes on.
WriteFail(t) ==
    /\ mpc = "running"
    /\ ticks[t].pc \in {"open", "write"}
    /\ warnings' = warnings + 1
    /\ ticks' = [ticks EXCEPT ![t] = afterSaveFailure(ticks[t])]
    /\ UNCHANGED <<mpc, isMonitoring, timerActive, history, historyFile, clock, fnVars, prVars, aiVars, interval>>

\* The SIGINT handler: isMonitoring = false; console.log; process.exit(0).
\* process.exit ends the process at once: every suspended callback is dropped.
Abandon(tk) ==
    IF tk.pc \in {"collect", "disk", "open", "write"} THEN [tk EXCEPT !.pc = "abandoned"] ELSE tk

Shutdown ==
    /\ mpc = "running"
    /\ isMonitoring' = FALSE
    /\ mpc' = "exited"
    /\ timerActive' = FALSE
    /\ ticks' = [t \in 1..Len(ticks) |-> Abandon(ticks[t])]
    /\ UNCHANGED <<history, historyFile, clock, warnings, fnVars, prVars, aiVars, interval>>

Next ==
    \/ Start
    \/ StartDirFail
    \/ TimerFire
    \/ \E t \in 1..Len(ticks) : CollectResolve(t)
    \/ \E t \in 1..Len(ticks) : CollectReject(t)
    \/ \E t \in 1..Len(ticks) : DiskResolve(t)
    \/ \E t \in 1..Len(ticks) : WriteOpen(t)
    \/ \E t \in 1..Len(ticks) : WriteDone(t)
    \/ \E t \in 1..Len(ticks) : WriteFail(t)
    \/ Shutdown

Spec == Init /\ [][Next]_vars

(***************************************************************************)
(* The rolling history alone: addToHistory applied again and again to a    *)
(* history that starts empty.  Sample number n carries timestamp n.        *)
(***************************************************************************)
MonitorIdle ==
    /\ mpc = "new"
    /\ isMonitoring = FALSE
    /\ timerActive = FALSE
    /\ history = <<>>
    /\ historyFile = Absent
    /\ ticks = <<>>
    /\ clock = 1
    /\ warnings = 0
    /\ interval = 5

\* No EnvironmentMonitor exists in a process that runs the optimize command.
MonitorAbsent ==
    /\ mpc = "absent"
    /\ isMonitoring = FALSE
    /\ timerActive = FALSE
    /\ history = <<>>
    /\ historyFile = Absent
    /\ ticks = <<>>
    /\ clock = 1
    /\ warnings = 0
    /\ interval = 5

InitHistory == MonitorIdle /\ FnIdle /\ AiIdle /\ PrIdle

AppendSample ==
    /\ clock <= maxHistory + ExtraAppends
    /\ history' = addToHistory(history, MkSample(clock, Calm))
    /\ clock' = clock + 1
    /\ UNCHANGED <<mpc, isMonitoring, timerActive, historyFile, ticks, warnings, fnVars, prVars, aiVars, interval>>

NextHistory == AppendSample

SpecHistory == InitHistory /\ [][NextHistory]_vars

(***************************************************************************)
(* determineWeather and checkAlerts applied to one sample.                 *)
(***************************************************************************)
Min(a, b) == IF a < b THEN a ELSE b

\* overallScore = (cpuScore + memScore + Math.min(running / 200, 1) * 100) / 3.
\* ScoreX6 is six times that value, which keeps it an integer:
\* Math.min(running / 200, 1) * 100 = Math.min(running, 200) / 2.
ScoreX6(d) == 2 * d.cpuUsage + 2 * d.memPercentage + Min(d.running, 200)

determineWeather_inclusive(d) ==
    IF ScoreX6(d) >= 6 * 80 THEN "Stormy"
    ELSE IF ScoreX6(d) >= 6 * 60 THEN "Rainy"
    ELSE IF ScoreX6(d) >= 6 * 40 THEN "Cloudy"
    ELSE IF ScoreX6(d) >= 6 * 20 THEN "Partly Sunny"
    ELSE "Sunny"

\* The condition field of the object determineWeather returns.
determineWeather(d) ==
    IF ScoreX6(d) > 6 * 80 THEN "Stormy"
    ELSE IF ScoreX6(d) > 6 * 60 THEN "Rainy"
    ELSE IF ScoreX6(d) > 6 * 40 THEN "Cloudy"
    ELSE IF ScoreX6(d) > 6 * 20 THEN "Partly Sunny"
    ELSE "Sunny"

CpuValues == {0, 20, 40, 50, 60, 75, 76, 80, 90, 91, 92, 95, 100}
MemValues == {0, 20, 40, 50, 60, 75, 76, 80, 90, 91, 95, 100}
RunningValues == {0, 40, 50, 80, 120, 160, 161, 200, 201, 250}

ClassifyReadings ==
    { [load |-> c, used |-> m, total |-> 100, running |-> p] :
        c \in CpuValues, m \in MemValues, p \in RunningValues }

InitClassify ==
    /\ PrIdle
    /\ MonitorIdle
    /\ AiIdle
    /\ sample \in {MkSample(0, r) : r \in ClassifyReadings}
    /\ weather = ""
    /\ alerts = <<>>
    /\ called = {}
    /\ forecast = FALSE
    /\ report = <<>>

DetermineWeather ==
    /\ "determineWeather" \notin called
    /\ weather' = determineWeather(sample)
    /\ called' = called \cup {"determineWeather"}
    /\ UNCHANGED <<monVars, aiVars, prVars, sample, alerts, forecast, report>>

CheckAlerts ==
    /\ "checkAlerts" \notin called
    /\ alerts' = checkAlerts(sample)
    /\ called' = called \cup {"checkAlerts"}
    /\ UNCHANGED <<monVars, aiVars, prVars, sample, weather, forecast, report>>

NextClassify == DetermineWeather \/ CheckAlerts

SpecClassify == InitClassify /\ [][NextClassify]_vars

(***************************************************************************)
(* The weather command: new EnvironmentMonitor(), then weatherReport.      *)
(***************************************************************************)
\* calculateTrends(data).cpu: the last sample's cpu usage minus the one before.
calculateTrends(data) ==
    IF Len(data) < 2 THEN 0
    ELSE data[Len(data)].cpuUsage - data[Len(data) - 1].cpuUsage

\* generateForecast(): the ending of 'Conditions expected to remain ...'.
generateForecast(h) ==
    LET recent == SubSeq(h, Len(h) - Min(Len(h), 10) + 1, Len(h))
        cpu == calculateTrends(recent)
    IN  IF cpu > 5 THEN "intense with potential storms"
        ELSE IF cpu < 0 - 5 THEN "calm and clear"
        ELSE "stable"

ForecastMinimum == 10

Section(name, text) == [section |-> name, text |-> text]

\* The history files the monitor may have left before the weather command.
WeatherFiles ==
    StoredFiles \cup {Json(StoredHistory(n)) : n \in {ForecastMinimum, ForecastMinimum + 1}}

InitWeather ==
    /\ PrIdle
    /\ mpc = "new"
    /\ isMonitoring = FALSE
    /\ timerActive = FALSE
    /\ history = <<>>
    /\ historyFile \in WeatherFiles
    /\ ticks = <<>>
    /\ clock = 0
    /\ warnings = 0
    /\ interval = 5
    /\ sample = MkSample(0, Calm)
    /\ weather = ""
    /\ alerts = <<>>
    /\ called = {}
    /\ forecast \in BOOLEAN
    /\ report = <<>>
    /\ AiIdle

\* weatherReport(forecast): collectMetrics resolves and the report is printed.
WeatherReport ==
    /\ report = <<>>
    /\ \E r \in ClassifyReadings :
         /\ sample' = MkSample(clock, r)
         /\ weather' = determineWeather(sample')
         /\ report' = <<Section("title", ""), Section("conditions", weather')>>
                       \o (IF forecast /\ Len(history) > ForecastMinimum
                           THEN <<Section("forecast", generateForecast(history))>>
                           ELSE <<>>)
                       \o <<Section("stats", "")>>
    /\ called' = called \cup {"weatherReport"}
    /\ UNCHANGED <<monVars, aiVars, prVars, alerts, forecast>>

\* collectMetrics rejects: the catch block prints the error only.
WeatherReportFail ==
    /\ report = <<>>
    /\ report' = <<Section("error", "")>>
    /\ UNCHANGED <<monVars, aiVars, prVars, sample, weather, alerts, called, forecast>>

NextWeather == WeatherReport \/ WeatherReportFail

SpecWeather == InitWeather /\ [][NextWeather]_vars

(***************************************************************************)
(* AIAssistant: the rule engine                                            *)
(***************************************************************************)
\* An insight: type, category and severity (message and data are display only).
Insight(t, c, s) == [type |-> t, category |-> c, severity |-> s]

analyzeCPU(cpu) ==
    (IF cpu.usage > 80 THEN <<Insight("warning", "cpu", "high")>> ELSE <<>>)
    \o (IF cpu.temperature > 70 THEN <<Insight("thermal", "cpu", "medium")>> ELSE <<>>)
    \o (IF cpu.cores > 4 /\ cpu.usage > 60
        THEN <<Insight("optimization", "cpu", "low")>> ELSE <<>>)

\* usagePercentage = (used / total) * 100 > 85; swapUsed > swapTotal * 0.5.
analyzeMemory(memory) ==
    (IF memory.used * 100 > 85 * memory.total
     THEN <<Insight("critical", "memory", "high")>> ELSE <<>>)
    \o (IF 2 * memory.swapUsed > memory.swapTotal
        THEN <<Insight("performance", "memory", "medium")>> ELSE <<>>)

RECURSIVE totalTraffic(_)
totalTraffic(network) ==
    IF network = <<>> THEN 0
    ELSE totalTraffic(SubSeq(network, 1, Len(network) - 1))
         + (network[Len(network)].rx_sec + network[Len(network)].tx_sec)

analyzeNetwork(network) ==
    IF totalTraffic(network) > 1000000
    THEN <<Insight("bandwidth", "network", "low")>> ELSE <<>>

\* p.name.toLowerCase() for the process names of the model.
toLowerCase(name) ==
    CASE name = "Code" -> "code"
      [] name = "Chrome" -> "chrome"
      [] OTHER -> name

devTools == {"node", "npm", "yarn", "git", "code", "vim", "emacs"}
distractions == {"chrome", "firefox", "safari", "slack", "discord"}

analyzeProductivity(sd) ==
    LET devProcesses == SelectSeq(sd.processes.list, LAMBDA p : toLowerCase(p) \in devTools)
        distractionProcesses ==
            SelectSeq(sd.processes.list, LAMBDA p : toLowerCase(p) \in distractions)
    IN  (IF Len(devProcesses) = 0
         THEN <<Insight("productivity", "development", "info")>> ELSE <<>>)
        \o (IF Len(distractionProcesses) > 3
            THEN <<Insight("productivity", "focus", "low")>> ELSE <<>>)

\* identifyPatterns; hour is new Date().getHours().
\* The resource test compares the ratio used / total (not a percentage) with 70.
identifyPatterns_percentage(sd, hour) ==
    (IF hour >= 9 /\ hour <= 17 THEN <<[type |-> "time", name |-> "work_hours"]>> ELSE <<>>)
    \o (IF sd.cpu.usage > 70 /\ sd.memory.used * 100 > 70 * sd.memory.total
        THEN <<[type |-> "resource", name |-> "high_load"]>> ELSE <<>>)

identifyPatterns(sd, hour) ==
    (IF hour >= 9 /\ hour <= 17 THEN <<[type |-> "time", name |-> "work_hours"]>> ELSE <<>>)
    \o (IF sd.cpu.usage > 70 /\ sd.memory.used > 70 * sd.memory.total
        THEN <<[type |-> "resource", name |-> "high_load"]>> ELSE <<>>)

getOptimizationCommand(insight) ==
    CASE insight.category = "cpu" -> "ps aux --sort=-%cpu | head -10"
      [] insight.category = "memory" -> "ps aux --sort=-%mem | head -10"
      [] insight.category = "network" -> "netstat -i"
      [] insight.category = "disk" -> "du -sh /* | sort -hr | head -10"
      [] insight.category = "productivity" ->
           "ps aux | grep -E \"(chrome|firefox|slack|discord)\""
      [] OTHER -> "top"

\* A suggestion (action and impact are display only).
Suggestion(c, p, cmd, auto) ==
    [category |-> c, priority |-> p, command |-> cmd, automated |-> auto]

\* The switch on insight.type inside insights.forEach.
suggestionsOf(insight) ==
    CASE insight.type \in {"warning", "critical"} ->
           <<Suggestion(insight.category, "high", getOptimizationCommand(insight), TRUE)>>
      [] insight.type \in {"performance", "thermal"} ->
           <<Suggestion(insight.category, "medium", getOptimizationCommand(insight), FALSE)>>
      [] insight.type \in {"optimization", "productivity"} ->
           <<Suggestion(insight.category, "low", getOptimizationCommand(insight), FALSE)>>
      [] OTHER -> <<>>

getSmartSuggestions(sd) ==
    (IF sd.pwdInNodeModules
     THEN <<Suggestion("development", "medium", "npm cache clean --force", FALSE)>>
     ELSE <<>>)
    \o (IF sd.processes.running > 150
        THEN <<Suggestion("processes", "medium",
                          "ps aux | awk \"$8 ~ /^Z/ { print $2 }\" | xargs kill -9", TRUE)>>
        ELSE <<>>)

\* insights.forEach(insight => { switch (insight.type) ... })
RECURSIVE suggestionsFromInsights(_)
suggestionsFromInsights(insights) ==
    IF insights = <<>> THEN <<>>
    ELSE suggestionsOf(Head(insights)) \o suggestionsFromInsights(Tail(insights))

sortByPriority_ascending(s) ==
    SelectSeq(s, LAMBDA x : x.priority = "low")
    \o SelectSeq(s, LAMBDA x : x.priority = "medium")
    \o SelectSeq(s, LAMBDA x : x.priority = "high")

\* Array.prototype.sort with the comparator priorityOrder[b] - priorityOrder[a]:
\* a stable sort, descending by priority.
sortByPriority(s) ==
    SelectSeq(s, LAMBDA x : x.priority = "high")
    \o SelectSeq(s, LAMBDA x : x.priority = "medium")
    \o SelectSeq(s, LAMBDA x : x.priority = "low")

generateSuggestions(insights, sd) ==
    sortByPriority(suggestionsFromInsights(insights) \o getSmartSuggestions(sd))

\* history.slice(-n)
LastN(s, n) == IF Len(s) <= n THEN s ELSE SubSeq(s, Len(s) - n + 1, Len(s))

Abs(x) == IF x < 0 THEN 0 - x ELSE x

\* A record of context.history: a metric the record does not carry is 0 here;
\* the filter h => h[metric] drops a missing metric and a metric of 0 alike.
metricOf(h, metric) == IF metric = "cpu" THEN h.cpu ELSE h.memory

\* predictTrend.  trend = (last - first) / values.length is kept as the
\* fraction rateNum / rateDen, and confidence in tenths.
predictTrend(hist, metric) ==
    LET recentHistory == SelectSeq(LastN(hist, 5), LAMBDA h : metricOf(h, metric) # 0)
        n == Len(recentHistory)
        diff == metricOf(recentHistory[n], metric) - metricOf(recentHistory[1], metric)
    IN  IF n < 2
        THEN [direction |-> "stable", rateNum |-> 0, rateDen |-> 1, confidence |-> 3]
        ELSE [direction |-> IF diff > 2 * n THEN "increasing"
                            ELSE IF diff < 0 - 2 * n THEN "decreasing" ELSE "stable",
              rateNum |-> Abs(diff),
              rateDen |-> n,
              confidence |-> Min(9, 3 + n)]

makePredictions_rateOnly(sd, ctx) ==
    LET cpuTrend == predictTrend(ctx.history, "cpu")
        memTrend == predictTrend(ctx.history, "memory")
    IN  (IF cpuTrend.rateNum > 5 * cpuTrend.rateDen
         THEN <<[type |-> "cpu", confidence |-> cpuTrend.confidence]>> ELSE <<>>)
        \o (IF memTrend.rateNum > 3 * memTrend.rateDen
            THEN <<[type |-> "memory", confidence |-> memTrend.confidence]>> ELSE <<>>)

makePredictions(sd, ctx) ==
    LET cpuTrend == predictTrend(ctx.history, "cpu")
        memTrend == predictTrend(ctx.history, "memory")
    IN  (IF cpuTrend.direction = "increasing" /\ cpuTrend.rateNum > 5 * cpuTrend.rateDen
         THEN <<[type |-> "cpu", confidence |-> cpuTrend.confidence]>> ELSE <<>>)
        \o (IF memTrend.direction = "increasing" /\ memTrend.rateNum > 3 * memTrend.rateDen
            THEN <<[type |-> "memory", confidence |-> memTrend.confidence]>> ELSE <<>>)

RECURSIVE deductions(_)
deductions(insights) ==
    IF insights = <<>> THEN 0
    ELSE (CASE Head(insights).severity = "high" -> 15
            [] Head(insights).severity = "medium" -> 10
            [] Head(insights).severity = "low" -> 5
            [] Head(insights).severity = "info" -> 2
            [] OTHER -> 0)
         + deductions(Tail(insights))

workHoursBonus(patterns) ==
    5 * Len(SelectSeq(patterns, LAMBDA q : q.type = "time" /\ q.name = "work_hours"))

Max(a, b) == IF a > b THEN a ELSE b

\* calculateAIScore: Math.max(0, Math.round(score)); the score is an integer.
calculateAIScore(insights, patterns) ==
    Max(0, 100 - deductions(insights) + workHoursBonus(patterns))

\* The switch without its break statements: each case falls into the next.
insightsFor_fallThrough(sd, focus) ==
    CASE focus = "cpu" -> analyzeCPU(sd.cpu) \o analyzeMemory(sd.memory)
                          \o analyzeNetwork(sd.network) \o analyzeProductivity(sd)
      [] focus = "memory" -> analyzeMemory(sd.memory) \o analyzeNetwork(sd.network)
                             \o analyzeProductivity(sd)
      [] focus = "network" -> analyzeNetwork(sd.network) \o analyzeProductivity(sd)
      [] focus = "productivity" -> analyzeProductivity(sd)
      [] OTHER -> analyzeCPU(sd.cpu) \o analyzeMemory(sd.memory)
                  \o analyzeNetwork(sd.network) \o analyzeProductivity(sd)

\* The switch (focusArea) of performAIAnalysis.
insightsFor(sd, focus) ==
    CASE focus = "cpu" -> analyzeCPU(sd.cpu)
      [] focus = "memory" -> analyzeMemory(sd.memory)
      [] focus = "network" -> analyzeNetwork(sd.network)
      [] focus = "productivity" -> analyzeProductivity(sd)
      [] OTHER -> analyzeCPU(sd.cpu) \o analyzeMemory(sd.memory)
                  \o analyzeNetwork(sd.network) \o analyzeProductivity(sd)

performAIAnalysis(sd, ctx, focus, hour) ==
    LET insights == insightsFor(sd, focus)
        patterns == identifyPatterns(sd, hour)
    IN  [ timestamp |-> sd.timestamp,
          focusArea |-> focus,
          insights |-> insights,
          suggestions |-> generateSuggestions(insights, sd),
          predictions |-> makePredictions(sd, ctx),
          patterns |-> patterns,
          score |-> calculateAIScore(insights, patterns) ]

\* loadContext: the parsed file, or the default when the file is missing or
\* cannot be read.
loadContext(f) == IF f.kind = "json" THEN f.data ELSE DefaultContext

ContextHistoryLimit == 50

\* The context saveContext writes: the file is read again, one record is
\* pushed, the history is cut to its last 50 records, the patterns replaced.
contextToSave_scoreAsMetric(f, an) ==
    LET ctx == loadContext(f)
        pushed == Append(ctx.history,
                         [timestamp |-> an.timestamp, score |-> an.score,
                          insights |-> Len(an.insights), suggestions |-> Len(an.suggestions),
                          cpu |-> an.score, memory |-> 0])
    IN  [ history |-> IF Len(pushed) > ContextHistoryLimit
                      THEN LastN(pushed, ContextHistoryLimit) ELSE pushed,
          patterns |-> an.patterns ]

contextToSave_overwrite(f, an) ==
    [ history |-> <<[timestamp |-> an.timestamp, score |-> an.score,
                     insights |-> Len(an.insights), suggestions |-> Len(an.suggestions),
                     cpu |-> 0, memory |-> 0]>>,
      patterns |-> an.patterns ]

contextToSave_uncapped(f, an) ==
    LET ctx == loadContext(f)
    IN  [ history |-> Append(ctx.history,
                             [timestamp |-> an.timestamp, score |-> an.score,
                              insights |-> Len(an.insights),
                              suggestions |-> Len(an.suggestions),
                              cpu |-> 0, memory |-> 0]),
          patterns |-> an.patterns ]

contextToSave(f, an) ==
    LET ctx == loadContext(f)
        pushed == Append(ctx.history,
                         [timestamp |-> an.timestamp, score |-> an.score,
                          insights |-> Len(an.insights), suggestions |-> Len(an.suggestions),
                          cpu |-> 0, memory |-> 0])
    IN  [ history |-> IF Len(pushed) > ContextHistoryLimit
                      THEN LastN(pushed, ContextHistoryLimit) ELSE pushed,
          patterns |-> an.patterns ]

(***************************************************************************)
(* AIAssistant.optimize                                                    *)
(***************************************************************************)
FocusValues == {"cpu", "memory", "network", "productivity", "all", "disk"}
Hours == {8, 9, 17, 18}

CpuReadings ==
    { [usage |-> u, cores |-> c, temperature |-> t] :
        u \in {50, 65, 85}, c \in {4, 8}, t \in {40, 75} }

MemoryReadings ==
    { [total |-> 100, used |-> u, swapTotal |-> 100, swapUsed |-> w] :
        u \in {50, 90}, w \in {0, 60} }

NetworkReadings ==
    { <<[rx_sec |-> 400000, tx_sec |-> 200000]>>,
      <<[rx_sec |-> 600000, tx_sec |-> 500000], [rx_sec |-> 0, tx_sec |-> 100]>> }

ProcessLists ==
    { <<"node", "chrome">>,
      <<"chrome", "firefox", "slack", "discord">>,
      <<"Code", "Chrome", "firefox", "safari", "slack">> }

SystemDatas ==
    { [ timestamp |-> 1, cpu |-> c, memory |-> m, network |-> n,
        processes |-> [running |-> r, list |-> l], pwdInNodeModules |-> d ] :
        c \in CpuReadings, m \in MemoryReadings, n \in NetworkReadings,
        r \in {100, 160}, l \in ProcessLists, d \in BOOLEAN }

\* A context file of earlier runs whose records carry a memory reading.
StoredRecord(i, mem) ==
    [timestamp |-> i - 5, score |-> 90, insights |-> 1, suggestions |-> 1,
     cpu |-> 0, memory |-> mem]

StoredContext ==
    [ history |-> <<StoredRecord(1, 50), StoredRecord(2, 55), StoredRecord(3, 60),
                    StoredRecord(4, 65), StoredRecord(5, 72)>>,
      patterns |-> <<>> ]

ContextFiles == {Absent, Corrupt, Json(StoredContext)}

InitOptimize ==
    /\ PrIdle
    /\ MonitorAbsent
    /\ FnIdle
    /\ apc = "start"
    /\ focusArea \in FocusValues
    /\ systemData = NoSystemData
    /\ context = DefaultContext
    /\ analysis = NoAnalysis
    /\ contextFile \in ContextFiles
    /\ suggestionsFile = Absent
    /\ answer = "unasked"
    /\ selected = <<>>
    /\ toRun = <<>>
    /\ executed = <<>>
    /\ aiLog = <<>>
    /\ trends = NoTrends

\* gatherSystemData resolves.
Gather ==
    /\ apc = "start"
    /\ systemData' \in SystemDatas
    /\ apc' = "gathered"
    /\ UNCHANGED <<monVars, fnVars, prVars, trends, focusArea, context, analysis, contextFile,
                   suggestionsFile, answer, selected, toRun, executed, aiLog>>

\* gatherSystemData rejects: the catch block of optimize reports it.
GatherFail ==
    /\ apc = "start"
    /\ apc' = "failed"
    /\ aiLog' = Append(aiLog, "fail")
    /\ UNCHANGED <<monVars, fnVars, prVars, trends, focusArea, systemData, context, analysis, contextFile,
                   suggestionsFile, answer, selected, toRun, executed>>

\* loadContext, performAIAnalysis, spinner.stop and displayOptimizations.
Analyze ==
    /\ apc = "gathered"
    /\ context' = loadContext(contextFile)
    /\ \E hour \in Hours :
         analysis' = performAIAnalysis(systemData, context', focusArea, hour)
    /\ aiLog' = aiLog \o (IF contextFile.kind = "corrupt" THEN <<"warn">> ELSE <<>>)
                      \o <<"display">>
    /\ trends' = [cpu |-> predictTrend(context'.history, "cpu"),
                   memory |-> predictTrend(context'.history, "memory")]
    /\ apc' = "analyzed"
    /\ UNCHANGED <<monVars, fnVars, prVars, focusArea, systemData, contextFile, suggestionsFile,
                   answer, selected, toRun, executed>>

\* saveContext: both files are written, or a write fails and is warned about
\* (failAt 1: nothing written; failAt 2: context.json written, suggestions.json not).
SaveContext ==
    /\ apc = "analyzed"
    /\ \E failAt \in {0, 1, 2} :
         /\ contextFile' = IF failAt = 1 THEN contextFile
                           ELSE Json(contextToSave(contextFile, analysis))
         /\ suggestionsFile' = IF failAt = 0 THEN Json(analysis.suggestions)
                               ELSE suggestionsFile
         /\ aiLog' = aiLog
                     \o (IF contextFile.kind = "corrupt" THEN <<"warn">> ELSE <<>>)
                     \o (IF failAt # 0 THEN <<"warn">> ELSE <<>>)
    /\ apc' = "saved"
    /\ UNCHANGED <<monVars, fnVars, prVars, trends, focusArea, systemData, context, analysis,
                   answer, selected, toRun, executed>>

\* if (applySuggestions) await this.applySuggestions(analysis.suggestions)
afterConfirm_always(yes) == "selecting"

afterConfirm(yes) == IF yes THEN "selecting" ELSE "done"

\* The confirm prompt is answered.
Confirm ==
    /\ apc = "saved"
    /\ \E yes \in BOOLEAN :
         /\ answer' = IF yes THEN "yes" ELSE "no"
         /\ apc' = afterConfirm(yes)
    /\ UNCHANGED <<monVars, fnVars, prVars, trends, focusArea, systemData, context, analysis, contextFile,
                   suggestionsFile, selected, toRun, executed, aiLog>>

\* A prompt rejects (the input stream is closed): the catch block reports it.
PromptFail ==
    /\ apc \in {"saved", "selecting"}
    /\ apc' = "failed"
    /\ aiLog' = Append(aiLog, "fail")
    /\ UNCHANGED <<monVars, fnVars, prVars, trends, focusArea, systemData, context, analysis, contextFile,
                   suggestionsFile, answer, selected, toRun, executed>>

\* The choices of the checkbox prompt.
choicesOf_unfiltered(suggestions) == suggestions

choicesOf(suggestions) == SelectSeq(suggestions, LAMBDA x : x.automated)

RECURSIVE pick(_, _, _)
pick(s, keep, i) ==
    IF i > Len(s) THEN <<>>
    ELSE (IF i \in keep THEN <<s[i]>> ELSE <<>>) \o pick(s, keep, i + 1)

\* What a checkbox prompt can return: the ticked choices, in the order of the list.
Selections(choices) == {pick(choices, keep, 1) : keep \in SUBSET (1..Len(choices))}

\* applySuggestions: the checkbox prompt is answered.
Select ==
    /\ apc = "selecting"
    /\ \E sel \in Selections(choicesOf(analysis.suggestions)) :
         /\ selected' = sel
         /\ toRun' = sel
         /\ apc' = IF sel = <<>> THEN "done" ELSE "applying"
    /\ UNCHANGED <<monVars, fnVars, prVars, trends, focusArea, systemData, context, analysis, contextFile,
                   suggestionsFile, answer, executed, aiLog>>

\* One round of the for-loop: executeCommand resolves or rejects; after the
\* last round the success line is printed.
Execute ==
    /\ apc = "applying"
    /\ toRun # <<>>
    /\ \E ok \in BOOLEAN :
         executed' = Append(executed, [suggestion |-> Head(toRun), ok |-> ok])
    /\ toRun' = Tail(toRun)
    /\ apc' = IF Tail(toRun) = <<>> THEN "done" ELSE "applying"
    /\ aiLog' = IF Tail(toRun) = <<>> THEN Append(aiLog, "applied") ELSE aiLog
    /\ UNCHANGED <<monVars, fnVars, prVars, trends, focusArea, systemData, context, analysis, contextFile,
                   suggestionsFile, answer, selected>>

NextOptimize ==
    \/ Gather
    \/ GatherFail
    \/ Analyze
    \/ SaveContext
    \/ Confirm
    \/ PromptFail
    \/ Select
    \/ Execute

SpecOptimize == InitOptimize /\ [][NextOptimize]_vars

(***************************************************************************)
(* Several optimize runs, one after the other, on the same context file.   *)
(* The clock counts the runs: run k reads the time k.                      *)
(***************************************************************************)
MaxRuns == 3
ExtraRecords == 2

\* A record as saveContext pushes it: timestamp, score and two counts.
WrittenRecord(ts) ==
    [timestamp |-> ts, score |-> 100, insights |-> 0, suggestions |-> 2,
     cpu |-> 0, memory |-> 0]

\* A context file of n records written before run 1 (timestamps up to 0).
WrittenContext(n) ==
    [history |-> [i \in 1..n |-> WrittenRecord(i - n)], patterns |-> <<>>]

WrittenLens ==
    {ContextHistoryLimit - 1, ContextHistoryLimit, ContextHistoryLimit + ExtraRecords}

RunContextFiles == {Absent} \cup {Json(WrittenContext(n)) : n \in WrittenLens}

RunSystemDatas(now) ==
    { [ timestamp |-> now,
        cpu |-> [usage |-> u, cores |-> 4, temperature |-> 40],
        memory |-> [total |-> 100, used |-> 50, swapTotal |-> 100, swapUsed |-> 0],
        network |-> <<[rx_sec |-> 400000, tx_sec |-> 200000]>>,
        processes |-> [running |-> 100, list |-> <<"node", "chrome">>],
        pwdInNodeModules |-> FALSE ] : u \in {50, 85} }

InitRuns ==
    /\ MonitorAbsent
    /\ FnIdle
    /\ PrIdle
    /\ apc = "start"
    /\ focusArea = "all"
    /\ systemData = NoSystemData
    /\ context = DefaultContext
    /\ analysis = NoAnalysis
    /\ contextFile \in RunContextFiles
    /\ suggestionsFile = Absent
    /\ answer = "unasked"
    /\ selected = <<>>
    /\ toRun = <<>>
    /\ executed = <<>>
    /\ aiLog = <<>>
    /\ trends = NoTrends

\* gatherSystemData resolves in run number `clock`.
GatherRun ==
    /\ apc = "start"
    /\ systemData' \in RunSystemDatas(clock)
    /\ apc' = "gathered"
    /\ UNCHANGED <<monVars, fnVars, prVars, trends, focusArea, context, analysis, contextFile,
                   suggestionsFile, answer, selected, toRun, executed, aiLog>>

\* The process of one run has ended (optimize returned, or the operator
\* interrupted a prompt) and the command is run again: a new AIAssistant,
\* the files as the earlier runs left them.
NewRun ==
    /\ apc \in {"saved", "selecting", "done", "failed"}
    /\ clock < MaxRuns
    /\ clock' = clock + 1
    /\ apc' = "start"
    /\ systemData' = NoSystemData
    /\ context' = DefaultContext
    /\ analysis' = NoAnalysis
    /\ answer' = "unasked"
    /\ selected' = <<>>
    /\ toRun' = <<>>
    /\ executed' = <<>>
    /\ aiLog' = <<>>
    /\ trends' = NoTrends
    /\ UNCHANGED <<mpc, isMonitoring, timerActive, history, historyFile, ticks, warnings,
                   interval, fnVars, prVars, focusArea, contextFile, suggestionsFile>>

NextRuns ==
    \/ GatherRun
    \/ GatherFail
    \/ Analyze
    \/ SaveContext
    \/ Confirm
    \/ NewRun

SpecRuns == InitRuns /\ [][NextRuns]_vars

(***************************************************************************)
(* ProductivityOptimizer.applyProfile                                      *)
(***************************************************************************)
MaxOptimizations == 2

OptimizationTypes == {"cpu", "memory", "network"}

OptimizationLists == UNION { [1..n -> OptimizationTypes] : n \in 0..MaxOptimizations }

\* A profile document (name, description, created and settings are not read
\* by applyOptimization), or a file readJson cannot parse.
ProfileDocuments == {Corrupt} \cup {Json([optimizations |-> o]) : o \in OptimizationLists}

StoredNames == {"dev", "build"}

ProfileDirs == UNION { [S -> ProfileDocuments] : S \in SUBSET StoredNames }

ProfileNames == StoredNames \cup {"missing"}

InitProfile ==
    /\ MonitorAbsent
    /\ FnIdle
    /\ AiIdle
    /\ ppc = "start"
    /\ profileName \in ProfileNames
    /\ profiles \in ProfileDirs
    /\ applied = <<>>
    /\ profileLog = <<>>

\* profile.optimizations of the document readJson returned.
optimizationsOf(dir, name) ==
    IF name \in DOMAIN dir /\ dir[name].kind = "json" THEN dir[name].data.optimizations
    ELSE <<>>

\* if (!await fs.pathExists(profilePath)) { console.log(not found); return; }
\* then readJson, outside the try block.
afterLookup_skipsExistsTest(dir, name) ==
    IF name \in DOMAIN dir /\ dir[name].kind = "corrupt" THEN "rejected" ELSE "applying"

afterLookup(dir, name) ==
    IF name \notin DOMAIN dir THEN "done"
    ELSE IF dir[name].kind = "corrupt" THEN "rejected"
    ELSE "applying"

LookupProfile ==
    /\ ppc = "start"
    /\ ppc' = afterLookup(profiles, profileName)
    /\ profileLog' = IF profileName \notin DOMAIN profiles THEN <<"not found">> ELSE profileLog
    /\ UNCHANGED <<monVars, fnVars, aiVars, profileName, profiles, applied>>

\* One round of the for-loop: await this.applyOptimization(optimization, ...).
ApplyOptimization ==
    /\ ppc = "applying"
    /\ Len(applied) < Len(optimizationsOf(profiles, profileName))
    /\ applied' = Append(applied, optimizationsOf(profiles, profileName)[Len(applied) + 1])
    /\ UNCHANGED <<monVars, fnVars, aiVars, ppc, profileName, profiles, profileLog>>

\* The loop is over: spinner.succeed and the list of optimizations.
ApplySucceed ==
    /\ ppc = "applying"
    /\ Len(applied) = Len(optimizationsOf(profiles, profileName))
    /\ ppc' = "done"
    /\ profileLog' = Append(profileLog, "applied")
    /\ UNCHANGED <<monVars, fnVars, aiVars, profileName, profiles, applied>>

NextProfile == LookupProfile \/ ApplyOptimization \/ ApplySucceed

SpecProfile == InitProfile /\ [][NextProfile]_vars

(***************************************************************************)
(* The two commands side by side: one process runs `monitor`, or one runs  *)
(* `optimize`; each starts from the files the other may have left.         *)
(***************************************************************************)
InitCommands == Init \/ InitOptimize

NextCommands == Next \/ NextOptimize

SpecCommands == InitCommands /\ [][NextCommands]_vars

(***************************************************************************)
(* makePredictions and predictTrend applied to one context history.        *)
(***************************************************************************)
MaxTrendLen == 6

\* The metrics a record of the context history may carry (0: not carried).
TrendRecord(c, m) ==
    [timestamp |-> 0, score |-> 90, insights |-> 1, suggestions |-> 1, cpu |-> c, memory |-> m]

TrendRecords ==
    { TrendRecord(0, 0), TrendRecord(40, 50), TrendRecord(70, 72),
      TrendRecord(0, 60), TrendRecord(50, 0) }

TrendHistories ==
    UNION { [1..n -> TrendRecords] : n \in 0..MaxTrendLen } \cup {StoredContext.history}

InitTrend ==
    /\ PrIdle
    /\ MonitorAbsent
    /\ FnIdle
    /\ apc = "idle"
    /\ focusArea = "all"
    /\ systemData = NoSystemData
    /\ context \in {[history |-> h, patterns |-> <<>>] : h \in TrendHistories}
    /\ analysis = NoAnalysis
    /\ contextFile = Absent
    /\ suggestionsFile = Absent
    /\ answer = "unasked"
    /\ selected = <<>>
    /\ toRun = <<>>
    /\ executed = <<>>
    /\ aiLog = <<>>
    /\ trends = NoTrends

\* analysis.predictions = this.makePredictions(systemData, context)
MakePredictions ==
    /\ trends = NoTrends
    /\ trends' = [cpu |-> predictTrend(context.history, "cpu"),
                   memory |-> predictTrend(context.history, "memory")]
    /\ analysis' = [analysis EXCEPT !.predictions = makePredictions(systemData, context)]
    /\ UNCHANGED <<monVars, fnVars, prVars, apc, focusArea, systemData, context, contextFile,
                   suggestionsFile, answer, selected, toRun, executed, aiLog>>

NextTrend == MakePredictions

SpecTrend == InitTrend /\ [][NextTrend]_vars

(***************************************************************************)
(* Properties of the monitor                                               *)
(***************************************************************************)
TickIds == 1..Len(ticks)

\* C1: at most one metrics acquisition (collectMetrics plus the save that
\* follows it) is in flight at any time; two ticks never overlap.
C1_AtMostOneInFlight ==
    Cardinality({t \in TickIds : InFlight(t)}) <= 1

\* C2: in every reachable state, also right after start() rehydrated the
\* history from history.json, the history holds at most maxHistory samples.
C2_HistoryWithinCapacity ==
    Len(history) <= maxHistory

\* C3: starting from an empty history, after N > maxHistory appends the history
\* holds exactly the maxHistory most recently appended samples, in append order.
C3_KeepsMostRecentInOrder ==
    LET n == clock - 1
    IN  n > maxHistory =>
          /\ Len(history) = maxHistory
          /\ \A i \in 1..maxHistory :
               history[i] = MkSample(n - maxHistory + i, Calm)

C3_Witness ==
    /\ clock - 1 > maxHistory + 1
    /\ Len(history) = maxHistory
    /\ history[1].timestamp = clock - maxHistory

\* C4: the timestamps of the history are strictly increasing from the first
\* to the last element, for every interleaving of ticks.
C4_TimestampsStrictlyIncrease ==
    \A i \in 1..(Len(history) - 1) :
        history[i].timestamp < history[i + 1].timestamp

\* C5: a tick whose acquisition failed appended no sample, saved nothing and
\* alerted nothing, and its failure was reported; the loop stays active; a
\* sample enters the history only by a tick whose acquisition succeeded.
SessionSamples == {i \in 1..Len(history) : history[i].timestamp > 0}

C5_FailedTickCommitsNothing ==
    /\ \A t \in TickIds :
         ticks[t].pc = "failed" =>
           /\ ticks[t].reported
           /\ ~ticks[t].appended
           /\ ~ticks[t].wrote
           /\ ticks[t].snap = <<>>
           /\ ticks[t].alerts = <<>>
           /\ mpc = "running" => (timerActive /\ isMonitoring)
    /\ \A t \in TickIds :
         ticks[t].appended => (ticks[t].data # <<>> /\ ticks[t].pc # "failed")
    /\ Cardinality(SessionSamples) <= Cardinality({t \in TickIds : ticks[t].appended})
    /\ (\A t \in TickIds : ~ticks[t].wrote) /\ historyFile.kind = "json" =>
         \A i \in 1..Len(historyFile.data) : historyFile.data[i].timestamp <= 0

C5_Witness ==
    /\ Len(ticks) = 2
    /\ ticks[1].pc = "failed"
    /\ ticks[2].pc = "done"
    /\ ticks[2].appended
    /\ history # <<>>
    /\ history[Len(history)] = ticks[2].data[1]

\* C6: once the shutdown handler has stopped the monitor, no later tick starts
\* an acquisition or appends a sample, and an acquisition that was in flight
\* at the moment of the stop still runs to completion (it is never dropped).
C6_InFlightTickCompletesAfterStop ==
    /\ \A t \in TickIds : ticks[t].pc # "abandoned"
    /\ (mpc = "exited") => ~isMonitoring

(***************************************************************************)
(* Properties of the optimize run and of the pure functions                *)
(***************************************************************************)
\* C7: a suggestion's command is executed only after the operator confirmed
\* applying suggestions and selected that suggestion; when the operator
\* declines or selects nothing, no command is executed.
C7_ExecutesOnlyConfirmedAndSelected ==
    /\ executed # <<>> => answer = "yes"
    /\ answer # "yes" => (executed = <<>> /\ toRun = <<>>)
    /\ Len(executed) <= Len(selected)
    /\ \A i \in 1..Len(executed) : executed[i].suggestion = selected[i]
    /\ selected = <<>> => executed = <<>>

C7_Witness ==
    /\ apc = "done"
    /\ answer = "yes"
    /\ Len(selected) = 2
    /\ Len(executed) = 2
    /\ executed[1].suggestion.command = "ps aux --sort=-%cpu | head -10"

\* C8: determineWeather returns the condition of the band that
\* score = (cpu + memory + min(running/200, 1) * 100) / 3 falls in, the upper
\* bound of each band inclusive: > 80 Stormy, (60, 80] Rainy, (40, 60] Cloudy,
\* (20, 40] Partly Sunny, <= 20 Sunny.
\* (score compared with k is 2*cpu + 2*memory + min(running, 200) compared with 6k.)
C8_WeatherBands ==
    "determineWeather" \in called =>
      LET p == IF sample.running >= 200 THEN 200 ELSE sample.running
          s6 == 2 * (sample.cpuUsage + sample.memPercentage) + p
      IN  /\ s6 > 480 <=> weather = "Stormy"
          /\ (360 < s6 /\ s6 <= 480) <=> weather = "Rainy"
          /\ (240 < s6 /\ s6 <= 360) <=> weather = "Cloudy"
          /\ (120 < s6 /\ s6 <= 240) <=> weather = "Partly Sunny"
          /\ s6 <= 120 <=> weather = "Sunny"

C8_Witness ==
    /\ "determineWeather" \in called
    /\ sample.cpuUsage = 80
    /\ sample.memPercentage = 80
    /\ sample.running = 160
    /\ weather = "Rainy"

\* C9: checkAlerts produces at most one CPU alert and at most one memory
\* alert: critical exactly when the usage is above 90, warning exactly when it
\* is above 75 and at most 90, none otherwise; never both for one metric.
alertsFor(metric) == SelectSeq(alerts, LAMBDA a : a.metric = metric)

alertRule(metric, usage) ==
    LET got == alertsFor(metric)
    IN  /\ Len(got) <= 1
        /\ (\E i \in 1..Len(got) : got[i].type = "critical") <=> usage > 90
        /\ (\E i \in 1..Len(got) : got[i].type = "warning") <=> (usage > 75 /\ usage <= 90)
        /\ usage <= 75 => got = <<>>

C9_OneAlertPerMetric ==
    "checkAlerts" \in called =>
      /\ alertRule("cpu", sample.cpuUsage)
      /\ alertRule("memory", sample.memPercentage)

C9_Witness ==
    /\ "checkAlerts" \in called
    /\ sample.cpuUsage = 95
    /\ sample.memPercentage = 76
    /\ alertsFor("cpu") = <<[type |-> "critical", metric |-> "cpu"]>>
    /\ alertsFor("memory") = <<[type |-> "warning", metric |-> "memory"]>>

\* C10: the analysis score is an integer in [0,100]: 100 minus 15 per high,
\* 10 per medium, 5 per low and 2 per info insight, plus 5 when the work-hours
\* pattern is detected, clamped to [0,100] on both ends.
countSeverity(sev) == Len(SelectSeq(analysis.insights, LAMBDA x : x.severity = sev))

C10_ScoreWithin0And100 ==
    analysis # NoAnalysis =>
      LET raw == 100 - 15 * countSeverity("high") - 10 * countSeverity("medium")
                     - 5 * countSeverity("low") - 2 * countSeverity("info")
                     + (IF \E i \in 1..Len(analysis.patterns) :
                              analysis.patterns[i].name = "work_hours"
                        THEN 5 ELSE 0)
      IN  /\ analysis.score \in 0..100
          /\ analysis.score = (IF raw > 100 THEN 100 ELSE IF raw < 0 THEN 0 ELSE raw)

\* C11: for every insight the rule engine emits, generateSuggestions produces
\* exactly one suggestion derived from it, and its priority mirrors the
\* insight's severity (high -> high, medium -> medium, low or info -> low).
mirror(severity) ==
    CASE severity = "high" -> "high"
      [] severity = "medium" -> "medium"
      [] OTHER -> "low"

Analyzed == analysis # NoAnalysis

C11_OneSuggestionPerInsight ==
    Analyzed =>
      /\ Len(analysis.suggestions)
           = Len(analysis.insights) + Len(getSmartSuggestions(systemData))
      /\ \A i \in 1..Len(analysis.insights) :
           \E j \in 1..Len(analysis.suggestions) :
             /\ analysis.suggestions[j].category = analysis.insights[i].category
             /\ analysis.suggestions[j].priority = mirror(analysis.insights[i].severity)
             /\ analysis.suggestions[j].command
                  = getOptimizationCommand(analysis.insights[i])

\* C12: the suggestion list is ordered by non-increasing priority, and two
\* suggestions of equal priority keep the order in which they were produced
\* (insight emission order, then the context-derived suggestions).
rank(priority) ==
    CASE priority = "high" -> 3
      [] priority = "medium" -> 2
      [] OTHER -> 1

produced == suggestionsFromInsights(analysis.insights) \o getSmartSuggestions(systemData)

positionIn(s, x) == CHOOSE k \in 1..Len(s) : s[k] = x

C12_SortedByPriorityStable ==
    Analyzed =>
      LET out == analysis.suggestions
      IN  /\ Len(out) = Len(produced)
          /\ \A k \in 1..Len(produced) : \E j \in 1..Len(out) : out[j] = produced[k]
          /\ \A i \in 1..Len(out), j \in 1..Len(out) :
               i < j =>
                 /\ rank(out[i].priority) >= rank(out[j].priority)
                 /\ out[i].priority = out[j].priority =>
                      positionIn(produced, out[i]) < positionIn(produced, out[j])

C12_Witness ==
    /\ Analyzed
    /\ Len(analysis.suggestions) >= 5
    /\ \E i \in 1..(Len(produced) - 1) :
         rank(produced[i].priority) < rank(produced[i + 1].priority)
    /\ \E i \in 1..(Len(analysis.suggestions) - 1) :
         /\ analysis.suggestions[i].priority = "medium"
         /\ analysis.suggestions[i + 1].priority = "medium"

\* C13: for focus cpu, memory, network or productivity every insight comes
\* from that one rule group, and no other group contributes; for focus all
\* the insights are the CPU, memory, network and productivity groups'
\* insights concatenated in that order.
groupOf(insight) ==
    IF insight.type = "productivity" THEN "productivity" ELSE insight.category

C13_FocusRestrictsRules ==
    Analyzed =>
      /\ focusArea \in {"cpu", "memory", "network", "productivity"} =>
           /\ \A i \in 1..Len(analysis.insights) :
                groupOf(analysis.insights[i]) = focusArea
           /\ focusArea = "cpu" => analysis.insights = analyzeCPU(systemData.cpu)
           /\ focusArea = "memory" => analysis.insights = analyzeMemory(systemData.memory)
           /\ focusArea = "network" => analysis.insights = analyzeNetwork(systemData.network)
           /\ focusArea = "productivity" =>
                analysis.insights = analyzeProductivity(systemData)
      /\ focusArea = "all" =>
           analysis.insights
             = analyzeCPU(systemData.cpu) \o analyzeMemory(systemData.memory)
               \o analyzeNetwork(systemData.network) \o analyzeProductivity(systemData)

C13_Witness ==
    /\ Analyzed
    /\ focusArea = "memory"
    /\ systemData.cpu.usage = 85
    /\ Len(analysis.insights) = 2
    /\ \A i \in 1..2 : analysis.insights[i].category = "memory"

\* C14: an optimize request whose focus is none of cpu, memory, network,
\* productivity, all is surfaced as an error and aborted: no insight rule
\* runs, no analysis is displayed, neither file is written.
C14_UnknownFocusAborts ==
    focusArea \notin {"cpu", "memory", "network", "productivity", "all"} =>
      /\ analysis = NoAnalysis
      /\ \A i \in 1..Len(aiLog) : aiLog[i] # "display"
      /\ suggestionsFile = Absent
      /\ apc \in {"idle", "start", "gathered", "failed"}

\* C15: starting the monitor with an interval that is zero or negative is
\* surfaced as an error and aborted: the sampling loop is never started, no
\* metrics are acquired, no sample is appended or saved.
C15_BadIntervalAborts ==
    interval <= 0 =>
      /\ ~timerActive
      /\ ~isMonitoring
      /\ ticks = <<>>
      /\ mpc \in {"new", "failed"}

\* C16: a Prediction for cpu or memory is emitted exactly when the trend of
\* that metric over the stored history is increasing with a rate above the
\* metric's minimum (cpu: > 5, memory: > 3), and it carries the trend's
\* confidence; memory values [50,55,60,65,72] give increasing, rate 4.4 and a
\* memory Prediction.
predictionsFor(metric) == SelectSeq(analysis.predictions, LAMBDA q : q.type = metric)

predictionRule(metric, minimum) ==
    LET got == predictionsFor(metric)
        tr == trends[metric]
    IN  /\ Len(got) <= 1
        /\ got # <<>> <=> (tr.direction = "increasing" /\ tr.rateNum > minimum * tr.rateDen)
        /\ got # <<>> => got[1].confidence = tr.confidence

C16_PredictionIffRisingTrend ==
    trends # NoTrends =>
      /\ predictionRule("cpu", 5)
      /\ predictionRule("memory", 3)
      /\ context.history = StoredContext.history =>
           /\ trends.memory.direction = "increasing"
           /\ 10 * trends.memory.rateNum = 44 * trends.memory.rateDen
           /\ predictionsFor("memory") = <<[type |-> "memory", confidence |-> 8]>>

C16_Witness ==
    /\ trends # NoTrends
    /\ context.history = StoredContext.history
    /\ predictionsFor("memory") # <<>>
    /\ predictionsFor("cpu") = <<>>

\* C17: the trend slope is (last - first) / 5, first and last being the oldest
\* and newest of the most recent 5 records that carry the metric (records
\* without it are skipped before the window is taken; the divisor is the window
\* size); with fewer than 2 such records the trend is stable, rate 0,
\* confidence 0.3.
windowSize == 5

trendRule(metric) ==
    LET carrying == SelectSeq(context.history, LAMBDA h : metricOf(h, metric) # 0)
        window == LastN(carrying, windowSize)
        diff == metricOf(window[Len(window)], metric) - metricOf(window[1], metric)
        tr == trends[metric]
    IN  IF Len(window) < 2
        THEN tr.direction = "stable" /\ tr.rateNum = 0 /\ tr.confidence = 3
        ELSE /\ windowSize * tr.rateNum = Abs(diff) * tr.rateDen
             /\ tr.direction = (IF diff > 2 * windowSize THEN "increasing"
                                ELSE IF diff < 0 - 2 * windowSize THEN "decreasing"
                                ELSE "stable")

C17_SlopeOverWindowSize ==
    trends # NoTrends => (trendRule("cpu") /\ trendRule("memory"))

\* C20: when saving the history fails during a tick, the failure is reported
\* and the session goes on: the tick's sample stays in the in-memory history,
\* the rest of the tick runs (it ends normally, with its alert check done), the
\* loop stays armed while the monitor runs, and the document written by every
\* later successful save holds the sample of the tick whose save failed along
\* with every other sample appended before that save.
saveFailures == {t \in TickIds : ticks[t].saveFailed}

holds(h, d) == \E i \in 1..Len(h) : h[i] = d

C20_SaveFailureKeepsSession ==
    /\ warnings >= Cardinality(saveFailures)
    /\ \A t \in saveFailures :
         /\ ticks[t].pc = "done"
         /\ ticks[t].appended
         /\ ticks[t].alerts = checkAlerts(ticks[t].data[1])
         /\ holds(history, ticks[t].data[1])
         /\ mpc = "running" => (isMonitoring /\ timerActive)
    /\ \A u \in TickIds : ticks[u].wrote =>
         \A t \in TickIds :
           (ticks[t].appended /\ ticks[t].appendNo < ticks[u].appendNo)
             => holds(ticks[u].snap, ticks[t].data[1])

C20_Witness ==
    /\ Len(ticks) = 2
    /\ ticks[1].saveFailed
    /\ ticks[2].wrote
    /\ ticks[1].appendNo < ticks[2].appendNo
    /\ historyFile = Json(history)
    /\ holds(historyFile.data, ticks[1].data[1])
    /\ holds(historyFile.data, ticks[2].data[1])

\* C19: a history file or context file that cannot be read or parsed is never
\* fatal: the load warns; the monitor starts with an empty history and its
\* ticks run normally on it (the history holds exactly the samples appended
\* since, every finished tick appended its sample and checked its alerts, the
\* loop stays armed); the assistant goes on with the default context (empty
\* history, no patterns) and displays the analysis computed from it.
historyLoadWarned == warnings > Cardinality(saveFailures)

contextLoadWarned == aiLog # <<>> /\ aiLog[1] = "warn"

appendedTicks == {t \in TickIds : ticks[t].appended}

C21_HistoryWriteIsAtomic ==
    (mpc = "exited" /\ warnings = 0 /\ Len(ticks) <= 1)
      => historyFile.kind # "corrupt"

\* C22: every insight of an analysis has a category in {cpu, memory, network,
\* productivity, disk, processes} and a severity in {info, low, medium, high}.
InsightCategories == {"cpu", "memory", "network", "productivity", "disk", "processes"}

InsightSeverities == {"info", "low", "medium", "high"}

C22_InsightsWithinVocabulary ==
    \A i \in 1..Len(analysis.insights) :
      /\ analysis.insights[i].category \in InsightCategories
      /\ analysis.insights[i].severity \in InsightSeverities

\* C23: when the weather command runs with the forecast option and the
\* history file the monitor left holds more than 10 samples, the report that
\* is printed has the 1-hour forecast section.
sectionsOf(r) == {r[i].section : i \in 1..Len(r)}

C23_ForecastShownAfterTenSamples ==
    ( /\ "stats" \in sectionsOf(report)
      /\ forecast
      /\ historyFile.kind = "json"
      /\ Len(historyFile.data) > 10 )
      => "forecast" \in sectionsOf(report)

\* C24: applying a profile whose name has no stored document is reported as
\* 'not found' and ends there: no optimization step is applied, no file is
\* created or modified, and nothing follows the report.
C24_MissingProfileAborts ==
    [][ /\ (ppc = "start" /\ profileName \notin DOMAIN profiles) =>
             /\ profileLog' = <<"not found">>
             /\ ppc' = "done"
             /\ applied' = <<>>
             /\ UNCHANGED <<profiles, historyFile, contextFile, suggestionsFile>>
        /\ profileLog # <<"not found">> ]_vars

C24_Witness ==
    /\ profileLog = <<"not found">>
    /\ profileName = "missing"
    /\ DOMAIN profiles = StoredNames
    /\ applied = <<>>
    /\ ppc = "done"

\* C25: when ticks overlap, once every tick that fired has finished, its save
\* included and none failed, the history file holds exactly the sample
\* sequence of the in-memory history.
C25_FileMatchesMemoryAfterOverlap ==
    ( /\ mpc = "running"
      /\ ticks # <<>>
      /\ \A t \in TickIds : ticks[t].pc = "done" /\ ticks[t].wrote )
      => historyFile = Json(history)

\* C26: in a sequence of optimize runs that starts from an absent context
\* file, or from one holding only records that saveContext wrote, the
\* predictions of every run are empty: both trends are stable with rate 0,
\* because no stored record carries a cpu or memory value.
C26_NoPredictionFromOwnRecords ==
    /\ analysis.predictions = <<>>
    /\ trends # NoTrends =>
         \A metric \in {"cpu", "memory"} :
           trends[metric].direction = "stable" /\ trends[metric].rateNum = 0

C26_Witness ==
    /\ clock = 3
    /\ apc = "analyzed"
    /\ Len(context.history) = 2
    /\ context.history[1].score + 10 <= context.history[2].score
    /\ analysis.predictions = <<>>

\* C27: a saveContext that writes the context file leaves at most 50 records
\* in it: the record of this run at the end, preceded by the most recent
\* records of the file it read, in their order -- whatever that file's length.
isSuffixOf(a, b) ==
    /\ Len(a) <= Len(b)
    /\ \A i \in 1..Len(a) : a[i] = b[Len(b) - Len(a) + i]

C27_SavedHistoryIsLastFifty ==
    [][ (apc = "analyzed" /\ contextFile' # contextFile) =>
          LET old == loadContext(contextFile).history
              new == contextFile'.data.history
              kept == SubSeq(new, 1, Len(new) - 1)
          IN  /\ contextFile'.kind = "json"
              /\ Len(new) = Min(Len(old) + 1, 50)
              /\ new[Len(new)].timestamp = analysis.timestamp
              /\ isSuffixOf(kept, old) ]_vars

C27_Witness ==
    /\ apc = "saved"
    /\ Len(context.history) = ContextHistoryLimit + ExtraRecords
    /\ contextFile.kind = "json"
    /\ Len(contextFile.data.history) = 50
    /\ contextFile.data.history[50].timestamp = analysis.timestamp
    /\ contextFile.data.history[49] = context.history[Len(context.history)]

\* C28 (as stated): the context record and the suggestions file are written
\* after the analysis is displayed and before the operator is asked; every
\* run whose analysis succeeded has appended exactly one record to the
\* context history, whatever the answer; a run whose gathering failed wrote
\* neither file and asked nothing.
pastSave == apc \in {"saved", "selecting", "applying", "done"} \/ answer # "unasked"

oneRecordAppended ==
    /\ contextFile.kind = "json"
    /\ Len(contextFile.data.history) = Len(context.history) + 1
    /\ SubSeq(contextFile.data.history, 1, Len(context.history)) = context.history
    /\ contextFile.data.history[Len(contextFile.data.history)].timestamp = analysis.timestamp

gatherFailedCleanly ==
    (apc = "failed" /\ systemData = NoSystemData) =>
      /\ suggestionsFile = Absent
      /\ contextFile \in ContextFiles
      /\ answer = "unasked"
      /\ analysis = NoAnalysis

warnCount == Cardinality({i \in 1..Len(aiLog) : aiLog[i] = "warn"})

saveWarned == warnCount > (IF contextLoadWarned THEN 2 ELSE 0)

C29_SelectedRunOnceInOrder ==
    /\ Len(executed) <= Len(selected)
    /\ \A i \in 1..Len(executed) :
         /\ executed[i].suggestion.automated
         /\ executed[i].suggestion = selected[i]
    /\ apc = "applying" => toRun = SubSeq(selected, Len(executed) + 1, Len(selected))
    /\ (apc = "done" /\ answer = "yes") => Len(executed) = Len(selected)

C29_Witness ==
    /\ apc = "done"
    /\ Len(executed) >= 2
    /\ ~executed[1].ok
    /\ executed[2].ok
    /\ \E i \in 1..Len(analysis.suggestions) : ~analysis.suggestions[i].automated

\* C30: for system data whose used memory does not exceed its total memory,
\* no analysis reports the high_load pattern, whatever the CPU usage: every
\* pattern of the analysis, and every pattern persisted in the context file,
\* is work_hours.
onlyWorkHours(patterns) ==
    \A i \in 1..Len(patterns) : patterns[i].name = "work_hours"

C30_HighLoadNeverReported ==
    systemData.memory.used <= systemData.memory.total =>
      /\ onlyWorkHours(analysis.patterns)
      /\ contextFile.kind = "json" => onlyWorkHours(contextFile.data.patterns)

C30_Witness ==
    /\ apc = "saved"
    /\ systemData.cpu.usage > 70
    /\ systemData.memory.used * 100 > 70 * systemData.memory.total
    /\ systemData.memory.used <= systemData.memory.total
    /\ analysis.patterns = <<[type |-> "time", name |-> "work_hours"]>>
    /\ contextFile.kind = "json"
    /\ contextFile.data.patterns = analysis.patterns

====
